---- MODULE Spec2Model ----
(***************************************************************************)
(* The maze (tile grid, per-tile event sets, line of sight, vision range)  *)
(* of reverie/backend_server/maze.py and the perception sampler of         *)
(* persona/cognitive_modules/perceive.py, as a state machine.              *)
(*                                                                         *)
(* Python lists are sequences: tiles[y][x] of the code is                  *)
(* maze.tiles[y + 1][x + 1] here.  Python's None is the empty tuple.       *)
(***************************************************************************)
EXTENDS Integers, Sequences, FiniteSets, TLC

VARIABLES maze, scratch, last

vars == <<maze, scratch, last>>

None == <<>>

\* ------------------------------------------------------------------ bounds
\* Size of the grids on which visibility and perception are explored.
VisW == 5
VisH == 3
\* Largest number of wall tiles in such a grid.
MaxWalls == 1
\* Size of the grid the event store starts from, and the largest width and
\* height it is expanded to.
InitW == 2
InitH == 2
MaxDim == 3
\* Events are added while the maze holds fewer than this.
MaxEvents == 3
\* Largest number of events stored in the maze perceive is run on.
MaxPlaced == 2
\* perceive is called while importance_ele_n is below this.
MaxEleN == 1

\* ------------------------------------------------------------ Python helpers
Abs(n) == IF n < 0 THEN -n ELSE n

Max(a, b) == IF a >= b THEN a ELSE b

Min(a, b) == IF a <= b THEN a ELSE b

\* range(n) as a set: empty when n <= 0.
Range(n) == 0 .. (n - 1)

\* ---------------------------------------------------------------- the maze
\* Maze._generate_default_layout
generate_default_layout(width, height) ==
    [y \in 1 .. height |-> [x \in 1 .. width |-> 0]]

\* One tile dictionary.
NewTile(x, y, type) ==
    [x |-> x, y |-> y, type |-> type, events |-> {},
     description |-> "", objects |-> {}]

\* Maze._generate_tiles
generate_tiles(width, height, layout) ==
    [y \in 1 .. height |->
        [x \in 1 .. width |->
            NewTile(x - 1, y - 1,
                    IF layout[y][x] = 0 THEN "traversable" ELSE "wall")]]

\* Maze.__init__ called with dimensions (no maze name): width and height are
\* used when both are truthy, otherwise the 10 x 10 default is built.
MazeOfSize(width, height, layout) ==
    IF width # 0 /\ height # 0
    THEN LET lay == IF layout # None THEN layout
                    ELSE generate_default_layout(width, height)
         IN [width |-> width, height |-> height, layout |-> lay,
             tiles |-> generate_tiles(width, height, lay)]
    ELSE [width |-> 10, height |-> 10,
          layout |-> generate_default_layout(10, 10),
          tiles |-> generate_tiles(10, 10, generate_default_layout(10, 10))]

\* The bounds test every method starts with.
InBounds(m, x, y) == 0 <= x /\ x < m.width /\ 0 <= y /\ y < m.height

\* Maze.is_traversable
is_traversable(m, tile) ==
    LET x == tile[1]
        y == tile[2]
    IN IF ~InBounds(m, x, y) THEN FALSE
       ELSE m.tiles[y + 1][x + 1].type = "traversable"

\* Maze.get_distance
get_distance(start, end) == Abs(end[1] - start[1]) + Abs(end[2] - start[2])

\* ------------------------------------------------------------ line of sight
\* Mutant of Blocks: the target tile blocks vision too.
BlocksAlsoTarget(m, tile, end) == ~is_traversable(m, tile)

\* The test of has_line_of_sight's loop body: the current tile blocks vision
\* unless it is the target tile.
Blocks(m, tile, end) == ~is_traversable(m, tile) /\ tile # end

\* Mutant of LosNext: a zero error steps along both axes at once.
LosNextDiagonal(x, y, error, x_inc, y_inc, dx, dy) ==
    IF error > 0 THEN <<x + x_inc, y, error - dy>>
    ELSE IF error = 0 THEN <<x + x_inc, y + y_inc, error + dx - dy>>
    ELSE <<x, y + y_inc, error + dx>>

\* The step of has_line_of_sight's loop body: <<x, y, error>> after it.
LosNext(x, y, error, x_inc, y_inc, dx, dy) ==
    IF error > 0 THEN <<x + x_inc, y, error - dy>>
    ELSE <<x, y + y_inc, error + dx>>

RECURSIVE LosLoop(_, _, _, _, _, _, _, _, _, _)
\* The loop of has_line_of_sight with `left` iterations to go: FALSE at the
\* first blocking tile, TRUE when the iterations are used up.
LosLoop(m, end, x, y, error, left, x_inc, y_inc, dx, dy) ==
    IF left = 0 THEN TRUE
    ELSE IF Blocks(m, <<x, y>>, end) THEN FALSE
    ELSE LET nxt == LosNext(x, y, error, x_inc, y_inc, dx, dy)
         IN LosLoop(m, end, nxt[1], nxt[2], nxt[3], left - 1,
                    x_inc, y_inc, dx, dy)

\* Maze.has_line_of_sight
has_line_of_sight(m, start, end) ==
    LET x0 == start[1]
        y0 == start[2]
        x1 == end[1]
        y1 == end[2]
        dx == Abs(x1 - x0)
        dy == Abs(y1 - y0)
        n == 1 + dx + dy
        x_inc == IF x1 > x0 THEN 1 ELSE -1
        y_inc == IF y1 > y0 THEN 1 ELSE -1
        error == dx - dy
    IN LosLoop(m, end, x0, y0, error, n, x_inc, y_inc, dx * 2, dy * 2)

RECURSIVE WalkFrom(_, _, _, _, _, _, _, _)
\* The tiles the loop of has_line_of_sight looks at, in order, when no tile
\* ends it early.
WalkFrom(x, y, error, left, x_inc, y_inc, dx, dy) ==
    IF left = 0 THEN <<>>
    ELSE LET nxt == LosNext(x, y, error, x_inc, y_inc, dx, dy)
         IN <<<<x, y>>>> \o WalkFrom(nxt[1], nxt[2], nxt[3], left - 1,
                                     x_inc, y_inc, dx, dy)

\* The walk of has_line_of_sight from start to end.
LosWalk(start, end) ==
    LET dx == Abs(end[1] - start[1])
        dy == Abs(end[2] - start[2])
    IN WalkFrom(start[1], start[2], dx - dy, 1 + dx + dy,
                IF end[1] > start[1] THEN 1 ELSE -1,
                IF end[2] > start[2] THEN 1 ELSE -1,
                dx * 2, dy * 2)

RECURSIVE VisitedFrom(_, _, _, _, _, _, _, _, _, _)
\* The tiles the loop of has_line_of_sight looks at before it returns: it
\* returns at the first blocking tile.
VisitedFrom(m, end, x, y, error, left, x_inc, y_inc, dx, dy) ==
    IF left = 0 THEN <<>>
    ELSE IF Blocks(m, <<x, y>>, end) THEN <<<<x, y>>>>
    ELSE LET nxt == LosNext(x, y, error, x_inc, y_inc, dx, dy)
         IN <<<<x, y>>>> \o VisitedFrom(m, end, nxt[1], nxt[2], nxt[3],
                                        left - 1, x_inc, y_inc, dx, dy)

\* The tiles a call of has_line_of_sight(start, end) visits, in order.
LosVisited(m, start, end) ==
    LET dx == Abs(end[1] - start[1])
        dy == Abs(end[2] - start[2])
    IN VisitedFrom(m, end, start[1], start[2], dx - dy, 1 + dx + dy,
                   IF end[1] > start[1] THEN 1 ELSE -1,
                   IF end[2] > start[2] THEN 1 ELSE -1,
                   dx * 2, dy * 2)

\* ------------------------------------------------------------- vision range
\* The offsets <<dx, dy>> of get_tiles_in_vision_range's two loops, in the
\* order the loops produce them: dy outside, dx inside.
VisionOffsets(vision_radius) ==
    LET side == 2 * vision_radius + 1
    IN [k \in 1 .. side * side |->
           <<((k - 1) % side) - vision_radius,
             ((k - 1) \div side) - vision_radius>>]

\* Mutant of VisionKeeps: the whole square, without the distance test.
VisionKeepsSquare(m, center_tile, vision_radius, off) ==
    LET target == <<center_tile[1] + off[1], center_tile[2] + off[2]>>
    IN /\ InBounds(m, target[1], target[2])
       /\ has_line_of_sight(m, center_tile, target)

\* The test of the loops' body on one offset.
VisionKeeps(m, center_tile, vision_radius, off) ==
    LET target == <<center_tile[1] + off[1], center_tile[2] + off[2]>>
    IN /\ InBounds(m, target[1], target[2])
       /\ Abs(off[1]) + Abs(off[2]) <= vision_radius
       /\ has_line_of_sight(m, center_tile, target)

\* Maze.get_tiles_in_vision_range
get_tiles_in_vision_range(m, center_tile, vision_radius) ==
    IF center_tile = None THEN <<>>
    ELSE IF ~InBounds(m, center_tile[1], center_tile[2]) THEN <<>>
    ELSE LET Keep(off) == VisionKeeps(m, center_tile, vision_radius, off)
             kept == SelectSeq(VisionOffsets(vision_radius), Keep)
         IN [i \in 1 .. Len(kept) |->
                <<center_tile[1] + kept[i][1], center_tile[2] + kept[i][2]>>]

\* ------------------------------------------------------------------- events
\* Events are tuples of strings: full events (subject, predicate, object,
\* description) and shorter ones, which add_event stores as readily.
EvBobEating == <<"Bob", "eating", "apple", "">>
EvBobWalking == <<"Bob", "walking", "", "">>
EvAliceEating == <<"Alice", "eating", "apple", "">>
EvAliceWaving == <<"Alice", "waving">>
EvBobOnly == <<"Bob">>

\* Maze.add_event
add_event(m, tile, event) ==
    LET x == tile[1]
        y == tile[2]
    IN IF InBounds(m, x, y)
       THEN [m EXCEPT !.tiles[y + 1][x + 1].events = @ \cup {event}]
       ELSE m

\* Mutant of remove_event: the event is not discarded.
remove_event_kept(m, tile, event) == m

\* Maze.remove_event
remove_event(m, tile, event) ==
    LET x == tile[1]
        y == tile[2]
    IN IF InBounds(m, x, y)
       THEN [m EXCEPT !.tiles[y + 1][x + 1].events = @ \ {event}]
       ELSE m

\* Maze.remove_subject_events_from_tile
remove_subject_events_from_tile(m, subject, tile) ==
    LET x == tile[1]
        y == tile[2]
    IN IF ~InBounds(m, x, y) THEN m
       ELSE LET events == m.tiles[y + 1][x + 1].events
                to_remove == {event \in events :
                                 Len(event) > 0 /\ event[1] = subject}
            IN [m EXCEPT !.tiles[y + 1][x + 1].events = events \ to_remove]

\* Mutant of expand_maze: the old layout is not copied into the new one.
expand_maze_fresh_layout(m, new_width, new_height) ==
    [width |-> new_width,
     height |-> new_height,
     layout |-> generate_default_layout(new_width, new_height),
     tiles |->
        [y \in 1 .. new_height |->
            [x \in 1 .. new_width |->
                IF y - 1 < m.height /\ x - 1 < m.width
                THEN m.tiles[y][x]
                ELSE NewTile(x - 1, y - 1, "traversable")]]]

\* Maze._expand_maze
expand_maze(m, new_width, new_height) ==
    [width |-> new_width,
     height |-> new_height,
     layout |->
        [y \in 1 .. new_height |->
            [x \in 1 .. new_width |->
                IF y <= Min(m.height, new_height)
                   /\ x <= Min(m.width, new_width)
                THEN m.layout[y][x] ELSE 0]],
     tiles |->
        [y \in 1 .. new_height |->
            [x \in 1 .. new_width |->
                IF y - 1 < m.height /\ x - 1 < m.width
                THEN m.tiles[y][x]
                ELSE NewTile(x - 1, y - 1, "traversable")]]]

\* A Python list index: i of a list of n items is valid from -n to n - 1, and
\* a negative one counts from the end.
IndexOk(i, n) == -n <= i /\ i < n

Index(i, n) == IF i >= 0 THEN i ELSE n + i

\* Maze.add_event_from_tile: the maze after the call, and whether
\* self.tiles[y][x] raised IndexError (after the expansion).
add_event_from_tile(m, event, tile) ==
    LET x == tile[1]
        y == tile[2]
        grown == IF ~InBounds(m, x, y)
                 THEN expand_maze(m, Max(m.width, x + 1), Max(m.height, y + 1))
                 ELSE m
    IN IF IndexOk(y, grown.height) /\ IndexOk(x, grown.width)
       THEN [maze |->
                [grown EXCEPT
                    !.tiles[Index(y, grown.height) + 1]
                           [Index(x, grown.width) + 1].events = @ \cup {event}],
             raised |-> FALSE]
       ELSE [maze |-> grown, raised |-> TRUE]

\* The test of remove_event_from_tile's loop: the two tuples agree on as many
\* components as both have.
ComponentsMatch(event, existing_event) ==
    LET min_len == Min(Len(event), Len(existing_event))
    IN SubSeq(event, 1, min_len) = SubSeq(existing_event, 1, min_len)

\* Mutant of remove_event_from_tile: a partial tuple removes one matching
\* event, not all of them.
remove_event_from_tile_one(m, event, tile) ==
    LET x == tile[1]
        y == tile[2]
    IN IF ~InBounds(m, x, y) THEN m
       ELSE LET events == m.tiles[y + 1][x + 1].events
                matching_events ==
                    {existing_event \in events :
                        ComponentsMatch(event, existing_event)}
            IN IF event \in events
               THEN [m EXCEPT !.tiles[y + 1][x + 1].events = events \ {event}]
               ELSE IF matching_events = {} THEN m
               ELSE [m EXCEPT !.tiles[y + 1][x + 1].events =
                        events \ {CHOOSE e \in matching_events : TRUE}]

\* Maze.remove_event_from_tile
remove_event_from_tile(m, event, tile) ==
    LET x == tile[1]
        y == tile[2]
    IN IF ~InBounds(m, x, y) THEN m
       ELSE LET events == m.tiles[y + 1][x + 1].events
                matching_events ==
                    {existing_event \in events :
                        ComponentsMatch(event, existing_event)}
            IN IF event \in events
               THEN [m EXCEPT !.tiles[y + 1][x + 1].events = events \ {event}]
               ELSE [m EXCEPT !.tiles[y + 1][x + 1].events =
                        events \ matching_events]

\* list(a set): the members of `events` in the order the iteration of the set
\* yields them, which is the order `order` lists them in.
ListOf(events, order) ==
    LET In(e) == e \in events IN SelectSeq(order, In)

\* Maze.get_events_at
get_events_at(m, tile, order) ==
    LET x == tile[1]
        y == tile[2]
    IN IF ~InBounds(m, x, y) THEN <<>>
       ELSE ListOf(m.tiles[y + 1][x + 1].events, order)

\* ------------------------------------------------------------------ persona
\* Scratch._init_defaults: the fields perceive reads and writes.
DefaultVisionR == 4
DefaultAttBandwidth == 3
DefaultImportanceTrigger == 10

ScratchDefaults ==
    [curr_tile |-> None, vision_r |-> DefaultVisionR,
     att_bandwidth |-> DefaultAttBandwidth,
     importance_trigger_curr |-> DefaultImportanceTrigger,
     importance_ele_n |-> 0]

\* --------------------------------------------------------------- perceive
\* The poignancy of an event, by the scoring collaborator perceive calls.
calculate_event_poignancy(event) ==
    IF event[1] = "Bob" THEN 3 ELSE 5

\* perceive's test that an event has the required components.
WellFormed(event) == Len(event) >= 2

\* perceive's standardized event tuple: missing components are "".
FormattedEvent(event) ==
    <<event[1], event[2],
      IF Len(event) > 2 THEN event[3] ELSE "",
      IF Len(event) > 3 THEN event[4] ELSE "">>

\* The entries perceive's inner loop makes of one tile's events: the
\* well-formed ones, formatted, with the tile's distance.
TileEntries(curr_tile, tile, events) ==
    LET wf == SelectSeq(events, WellFormed)
    IN [i \in 1 .. Len(wf) |->
           [dist |-> get_distance(curr_tile, tile),
            event |-> FormattedEvent(wf[i])]]

RECURSIVE GatherFrom(_, _, _, _, _)
\* perceive's loop over the visible tiles from the i-th on: the entries of all
\* well-formed events, in the order the loops meet them.
GatherFrom(m, curr_tile, visible_tiles, order, i) ==
    IF i > Len(visible_tiles) THEN <<>>
    ELSE TileEntries(curr_tile, visible_tiles[i],
                     get_events_at(m, visible_tiles[i], order))
         \o GatherFrom(m, curr_tile, visible_tiles, order, i + 1)

\* The entries left of `entries` when those at the positions of `raised` are
\* dropped: the events whose scoring raised inside the first loop's try.
WithoutRaised(entries, raised) ==
    LET idx == SelectSeq([i \in 1 .. Len(entries) |-> i],
                         LAMBDA i : i \notin raised)
    IN [k \in 1 .. Len(idx) |-> entries[idx[k]]]

RECURSIVE SortByDist(_)
\* Mutant of SortByDist: an entry goes behind the entries of its distance that
\* follow it (the sort is not stable).
SortByDistUnstable(entries) ==
    IF entries = <<>> THEN <<>>
    ELSE LET h == Head(entries)
             rest == SortByDist(Tail(entries))
         IN SelectSeq(rest, LAMBDA e : e.dist <= h.dist) \o <<h>>
            \o SelectSeq(rest, LAMBDA e : e.dist > h.dist)

\* percept_events_list.sort(key=distance): ascending, and stable, as Python's
\* sort is: an entry stays ahead of the later entries of its distance.
SortByDist(entries) ==
    IF entries = <<>> THEN <<>>
    ELSE LET h == Head(entries)
             rest == SortByDist(Tail(entries))
         IN SelectSeq(rest, LAMBDA e : e.dist < h.dist) \o <<h>>
            \o SelectSeq(rest, LAMBDA e : e.dist >= h.dist)

\* percept_events_list[:att_bandwidth]
Taken(sorted, att_bandwidth) ==
    SubSeq(sorted, 1, Min(att_bandwidth, Len(sorted)))

RECURSIVE SumScores(_, _, _)
\* The poignancy the second loop subtracts over the taken entries from the
\* i-th on: that of the entries whose scoring did not raise.
SumScores(taken, raised, i) ==
    IF i > Len(taken) THEN 0
    ELSE (IF i \in raised THEN 0
          ELSE calculate_event_poignancy(taken[i].event))
         + SumScores(taken, raised, i + 1)

\* perceive runs in three stages, given the order in which sets iterate and
\* the calls of the scoring collaborator that raise: raised1 in the first loop
\* (by position among the well-formed events met), raised2 in the second (by
\* position among the taken entries).

\* Mutant of perceive_visible_tiles: every tile within the radius, seen or not.
perceive_tiles_in_radius(sc, m) ==
    IF sc.curr_tile = None THEN <<>>
    ELSE LET all == [k \in 1 .. m.width * m.height |->
                        <<(k - 1) % m.width, (k - 1) \div m.width>>]
         IN SelectSeq(all, LAMBDA t :
                               get_distance(sc.curr_tile, t) <= sc.vision_r)

\* Stage 1: the visible tiles; none when the position is unset.
perceive_visible_tiles(sc, m) ==
    IF sc.curr_tile = None THEN <<>>
    ELSE get_tiles_in_vision_range(m, sc.curr_tile, sc.vision_r)

\* Stage 2: the entries of the well-formed events the first loop meets, each
\* scored once.
perceive_met(sc, m, visible_tiles, order) ==
    IF sc.curr_tile = None THEN <<>>
    ELSE GatherFrom(m, sc.curr_tile, visible_tiles, order, 1)

\* Stage 3: the list gathered (the entries whose scoring did not raise), the
\* sort, the second loop; the result, the scratch after the call and the list
\* gathered before the sort.
perceive_sample(sc, met, raised1, raised2) ==
    IF sc.curr_tile = None
    THEN [ret |-> <<>>, scratch |-> sc, gathered |-> <<>>]
    ELSE LET percept_events_list == WithoutRaised(met, raised1)
             taken == Taken(SortByDist(percept_events_list), sc.att_bandwidth)
         IN [ret |-> [i \in 1 .. Len(taken) |-> taken[i].event],
             scratch |->
                 [sc EXCEPT
                     !.importance_trigger_curr =
                         @ - SumScores(taken, raised2, 1),
                     !.importance_ele_n =
                         @ + Cardinality((1 .. Len(taken)) \ raised2)],
             gathered |-> percept_events_list]

\* ------------------------------------------------------- the record of a call
\* last holds the call that has just returned: its name, its arguments, what
\* it returned and the maze it was made on.  Return hands it to the caller,
\* who may then make the next call.
\* obs holds what the call computed on the way (its locals), for the calls
\* whose result alone does not show it.
Idle == [op |-> "none", args |-> <<>>, ret |-> <<>>, pre |-> <<>>, obs |-> <<>>]

Call(op, args, ret) ==
    [op |-> op, args |-> args, ret |-> ret, pre |-> maze, obs |-> <<>>]

Return ==
    /\ last.op # "none"
    /\ last' = Idle
    /\ UNCHANGED <<maze, scratch>>

\* ------------------------------------------- specification: visibility queries
\* A layout of the given size whose walls are the tiles of `walls`.
LayoutOf(width, height, walls) ==
    [y \in 1 .. height |->
        [x \in 1 .. width |-> IF <<x - 1, y - 1>> \in walls THEN 1 ELSE 0]]

GridTiles(width, height) == Range(width) \X Range(height)

\* The wall sets of the grids: at most MaxWalls tiles.
WallSets(width, height) ==
    {w \in SUBSET GridTiles(width, height) : Cardinality(w) <= MaxWalls}

\* The tiles asked about: the grid and one ring of coordinates around it.
VisCoords == (-1 .. VisW) \X (-1 .. VisH)

VisInit ==
    /\ maze \in {MazeOfSize(VisW, VisH, LayoutOf(VisW, VisH, w)) :
                    w \in WallSets(VisW, VisH)}
    /\ scratch = ScratchDefaults
    /\ last = Idle

HasLineOfSight ==
    /\ last.op = "none"
    /\ \E a \in VisCoords, b \in VisCoords :
          last' = [Call("has_line_of_sight", <<a, b>>,
                        has_line_of_sight(maze, a, b))
                   EXCEPT !.obs = LosVisited(maze, a, b)]
    /\ UNCHANGED <<maze, scratch>>

GetTilesInVisionRange ==
    /\ last.op = "none"
    /\ \E c \in VisCoords \cup {None}, r \in 0 .. DefaultVisionR :
          last' = Call("get_tiles_in_vision_range", <<c, r>>,
                       get_tiles_in_vision_range(maze, c, r))
    /\ UNCHANGED <<maze, scratch>>

VisNext == HasLineOfSight \/ GetTilesInVisionRange \/ Return

SpecVis == VisInit /\ [][VisNext]_vars

\* C1: has_line_of_sight(a, b) is false exactly when some tile of the walk
\* from a to b other than b is not traversable (a wall or out of bounds); a
\* non-traversable b alone never makes it false, and has_line_of_sight(a, a)
\* is true.
C1_LineOfSight ==
    last.op = "has_line_of_sight" =>
        LET a == last.args[1]
            b == last.args[2]
            walk == LosWalk(a, b)
            blocked == \E i \in 1 .. Len(walk) :
                          walk[i] # b /\ ~is_traversable(maze, walk[i])
        IN /\ (last.ret = FALSE) <=> blocked
           /\ (a = b) => (last.ret = TRUE)

\* A wall strictly between two grid tiles has ended the walk early.
C1_Witness ==
    /\ last.op = "has_line_of_sight"
    /\ last.ret = FALSE
    /\ is_traversable(maze, last.args[1])
    /\ InBounds(maze, last.args[2][1], last.args[2][2])

\* Sight to a wall tile from another tile: the destination does not block.
C1_WitnessWallTarget ==
    /\ last.op = "has_line_of_sight"
    /\ last.ret = TRUE
    /\ last.args[1] # last.args[2]
    /\ InBounds(maze, last.args[2][1], last.args[2][2])
    /\ ~is_traversable(maze, last.args[2])

\* C2: for an in-bounds center and a radius r >= 0, get_tiles_in_vision_range
\* returns exactly the in-bounds tiles within Manhattan distance r of the
\* center that has_line_of_sight(center, tile) accepts, in row-major order
\* (ascending y, then ascending x) and without duplicates; for an out-of-bounds
\* or unset center it returns the empty list.
C2_VisionRange ==
    last.op = "get_tiles_in_vision_range" =>
        LET c == last.args[1]
            r == last.args[2]
            ret == last.ret
        IN IF c # None /\ InBounds(maze, c[1], c[2])
           THEN /\ {ret[i] : i \in 1 .. Len(ret)} =
                      {t \in GridTiles(maze.width, maze.height) :
                          /\ Abs(t[1] - c[1]) + Abs(t[2] - c[2]) <= r
                          /\ has_line_of_sight(maze, c, t)}
                /\ \A i \in 1 .. Len(ret), j \in 1 .. Len(ret) :
                      i < j => \/ ret[i][2] < ret[j][2]
                               \/ ret[i][2] = ret[j][2] /\ ret[i][1] < ret[j][1]
           ELSE ret = <<>>

\* A tile inside the radius is left out because a wall hides it, while others
\* on several rows are returned.
C2_Witness ==
    /\ last.op = "get_tiles_in_vision_range"
    /\ last.args[1] # None
    /\ last.args[2] >= 2
    /\ Len(last.ret) >= 4
    /\ last.ret[1][2] < last.ret[Len(last.ret)][2]
    /\ \E t \in GridTiles(maze.width, maze.height) :
          /\ get_distance(last.args[1], t) <= last.args[2]
          /\ \A i \in 1 .. Len(last.ret) : last.ret[i] # t

\* --------------------------------------------------- specification: perceive
\* The tiles that hold events in the maze perceive is run on, the tiles that
\* may be walls and the positions of the persona.
EventTiles == {<<4, 2>>, <<1, 1>>, <<0, 0>>}

WallTiles == {<<2, 2>>, <<0, 1>>, <<1, 1>>}

PersonaTiles == {None, <<0, 2>>, <<2, 1>>}

\* What may be stored where: the events of two and of four components on each
\* of the tiles, the event of one component on one of them.
Placements ==
    (EventTiles \X {EvBobEating, EvAliceWaving}) \cup {<<<<1, 1>>, EvBobOnly>>}

\* The events stored anywhere in the maze.
KindsIn(m) ==
    UNION {m.tiles[y][x].events : x \in 1 .. m.width, y \in 1 .. m.height}

\* The orders in which a set of events may iterate.
Orders(kinds) ==
    {f \in [1 .. Cardinality(kinds) -> kinds] :
        \A e \in kinds : \E i \in DOMAIN f : f[i] = e}

RECURSIVE Populate(_, _)
\* The maze after add_event(tile, event) for every <<tile, event>> of `placed`.
Populate(m, placed) ==
    IF placed = {} THEN m
    ELSE LET p == CHOOSE q \in placed : TRUE
         IN Populate(add_event(m, p[1], p[2]), placed \ {p})

\* Scratch._load_saved_state: the position, the vision radius and the
\* attention bandwidth come from the saved state.
LoadedScratch(curr_tile, vision_r, att_bandwidth) ==
    [ScratchDefaults EXCEPT !.curr_tile = curr_tile, !.vision_r = vision_r,
                            !.att_bandwidth = att_bandwidth]

PerceiveInit ==
    /\ \E w \in {v \in SUBSET WallTiles : Cardinality(v) <= MaxWalls},
          placed \in {q \in SUBSET Placements :
                         Cardinality(q) <= MaxPlaced} :
          maze = Populate(MazeOfSize(VisW, VisH, LayoutOf(VisW, VisH, w)),
                          placed)
    /\ \E ct \in PersonaTiles, vr \in 0 .. DefaultVisionR,
          ab \in 0 .. DefaultAttBandwidth :
          scratch = LoadedScratch(ct, vr, ab)
    /\ last = Idle

\* perceive(persona, maze)
Perceive ==
    /\ last.op = "none"
    /\ scratch.importance_ele_n < MaxEleN
    /\ \E visible_tiles \in {perceive_visible_tiles(scratch, maze)},
          order \in Orders(KindsIn(maze)) :
          \E met \in {perceive_met(scratch, maze, visible_tiles, order)} :
             \E raised1 \in SUBSET (1 .. Len(met)) :
                \E raised2 \in SUBSET (1 .. Min(scratch.att_bandwidth,
                                          Len(met) - Cardinality(raised1))) :
                   LET r == perceive_sample(scratch, met, raised1, raised2)
                   IN /\ scratch' = r.scratch
                      /\ last' = [op |-> "perceive", args |-> <<scratch>>,
                                  ret |-> r.ret, pre |-> maze,
                                  obs |-> [visible |-> visible_tiles,
                                           gathered |-> r.gathered,
                                           raised1 |-> raised1,
                                           raised2 |-> raised2]]
    /\ UNCHANGED maze

PerceiveNext == Perceive \/ Return

SpecPerceive == PerceiveInit /\ [][PerceiveNext]_vars

\* The number of gathered entries the sort puts ahead of the i-th: those of a
\* smaller distance and the earlier ones of the same distance.
Ahead(g, i) ==
    Cardinality({j \in 1 .. Len(g) :
                    \/ g[j].dist < g[i].dist
                    \/ g[j].dist = g[i].dist /\ j < i})

\* C3: with attention bandwidth k and n events gathered from the visible
\* tiles, perceive returns exactly min(k, n) events: the gathered events of the
\* smallest distances in ascending order of distance, events of equal distance
\* in the order in which they were gathered.
C3_SortedTruncation ==
    last.op = "perceive" =>
        LET g == last.obs.gathered
            k == last.args[1].att_bandwidth
        IN /\ Len(last.ret) = Min(k, Len(g))
           /\ \A i \in 1 .. Len(g) :
                 Ahead(g, i) < k => last.ret[Ahead(g, i) + 1] = g[i].event

\* More events gathered than the bandwidth takes, and the nearest was not the
\* first gathered.
C3_Witness ==
    /\ last.op = "perceive"
    /\ Len(last.obs.gathered) = 2
    /\ Len(last.ret) = 1
    /\ last.obs.gathered[2].dist < last.obs.gathered[1].dist
    /\ last.ret[1] = last.obs.gathered[2].event

\* Two events of the same distance are returned in the order gathered.
C3_WitnessTie ==
    /\ last.op = "perceive"
    /\ Len(last.obs.gathered) = 2
    /\ last.obs.gathered[1].dist = last.obs.gathered[2].dist
    /\ last.obs.gathered[1].event # last.obs.gathered[2].event
    /\ Len(last.ret) = 2

RECURSIVE SumOfScores(_, _)
SumOfScores(events, i) ==
    IF i > Len(events) THEN 0
    ELSE calculate_event_poignancy(events[i]) + SumOfScores(events, i + 1)

\* C4: after a call to perceive importance_ele_n has grown by the number of
\* events returned and importance_trigger_curr has dropped by the sum of their
\* scores; with the position unset the result is empty and both are unchanged.
C4_Accumulator ==
    last.op = "perceive" =>
        LET before == last.args[1]
        IN /\ scratch.importance_ele_n =
                 before.importance_ele_n + Len(last.ret)
           /\ scratch.importance_trigger_curr =
                 before.importance_trigger_curr - SumOfScores(last.ret, 1)
           /\ before.curr_tile = None =>
                 last.ret = <<>> /\ scratch = before

\* C5: an event whose scoring raises is skipped and only it: it is not in the
\* returned list, adds nothing to the accumulator, and the other events are
\* processed as if it had not been on its tile.
C5_ErrorSkipsOnlyThatEvent ==
    last.op = "perceive" =>
        LET before == last.args[1]
            sorted == SortByDist(last.obs.gathered)
            good == WithoutRaised(sorted, last.obs.raised2)
            expected == Taken(good, before.att_bandwidth)
        IN /\ last.ret = [i \in 1 .. Len(expected) |-> expected[i].event]
           /\ scratch.importance_ele_n =
                 before.importance_ele_n + Len(expected)
           /\ scratch.importance_trigger_curr =
                 before.importance_trigger_curr - SumScores(expected, {}, 1)

\* The events stored on a tile.
EventsOn(m, tile) == m.tiles[tile[2] + 1][tile[1] + 1].events

\* C6: every event perceive returns is the 4-tuple form of an event stored on
\* a tile of get_tiles_in_vision_range(curr_tile, vision_r), so an event that
\* is only on tiles whose line of sight from the persona a wall blocks is not
\* returned; and when the bandwidth is not exhausted and no scoring raised,
\* every well-formed event on a tile in the vision range is returned.
C6_OnlyVisibleEvents ==
    last.op = "perceive" =>
        \A vis \in {IF last.args[1].curr_tile = None THEN <<>>
                    ELSE get_tiles_in_vision_range(maze,
                             last.args[1].curr_tile, last.args[1].vision_r)} :
           LET sc == last.args[1]
               ret == last.ret
           IN /\ \A i \in 1 .. Len(ret) :
                    \E j \in 1 .. Len(vis) :
                       \E e \in EventsOn(maze, vis[j]) :
                          Len(e) >= 2 /\ ret[i] = FormattedEvent(e)
              /\ \A i \in 1 .. Len(ret) :
                    \E t \in GridTiles(maze.width, maze.height) :
                       /\ \E e \in EventsOn(maze, t) :
                             Len(e) >= 2 /\ ret[i] = FormattedEvent(e)
                       /\ has_line_of_sight(maze, sc.curr_tile, t)
              /\ (Len(last.obs.gathered) <= sc.att_bandwidth
                  /\ last.obs.raised1 = {}) =>
                    \A j \in 1 .. Len(vis) :
                       \A e \in EventsOn(maze, vis[j]) :
                          Len(e) >= 2 =>
                             \E i \in 1 .. Len(ret) :
                                ret[i] = FormattedEvent(e)

\* The persona at (0,2) with radius 4, a wall at (2,2), one event behind it at
\* (4,2) and another at (1,1): the second is returned, the first is not.
C6_Witness ==
    /\ last.op = "perceive"
    /\ last.args[1].curr_tile = <<0, 2>>
    /\ last.args[1].vision_r = 4
    /\ ~is_traversable(maze, <<2, 2>>)
    /\ EventsOn(maze, <<4, 2>>) = {EvBobEating}
    /\ EventsOn(maze, <<1, 1>>) = {EvAliceWaving}
    /\ last.ret = << <<"Alice", "waving", "", "">> >>

\* ------------------------------------------ specification: the event store
\* The tiles the calls address: one always in bounds, one out of bounds until
\* the grid has grown to its largest, one with a negative coordinate.
TileInputs == {<<0, 0>>, <<MaxDim - 1, MaxDim - 1>>, <<-1, 1>>}

\* The tiles add_event_from_tile is called with: these, and one with a
\* negative coordinate beyond the reach of a list index.
AddTileInputs == TileInputs \cup {<<-MaxDim - 2, 0>>}

StoreEvents == {EvBobEating, EvBobWalking, EvAliceEating}

RemovePatterns == StoreEvents \cup {EvBobOnly}

Subjects == {"Bob", "Alice"}

\* The number of events stored in the maze.
TotalEvents(m) ==
    Cardinality({c \in (1 .. m.width) \X (1 .. m.height) \X StoreEvents :
                    c[3] \in m.tiles[c[2]][c[1]].events})

\* The walls of the grid the event store starts from: none, or one tile.
StoreWalls == {{}, {<<0, 1>>}, {<<1, 1>>}}

Init ==
    /\ maze \in {MazeOfSize(InitW, InitH, LayoutOf(InitW, InitH, w)) :
                    w \in StoreWalls}
    /\ scratch = ScratchDefaults
    /\ last = Idle

AddEvent ==
    /\ last.op = "none"
    /\ TotalEvents(maze) < MaxEvents
    /\ \E tile \in TileInputs, event \in StoreEvents :
          /\ maze' = add_event(maze, tile, event)
          /\ last' = Call("add_event", <<tile, event>>, "None")
    /\ UNCHANGED scratch

RemoveEvent ==
    /\ last.op = "none"
    /\ \E tile \in TileInputs, event \in StoreEvents :
          /\ maze' = remove_event(maze, tile, event)
          /\ last' = Call("remove_event", <<tile, event>>, "None")
    /\ UNCHANGED scratch

RemoveSubjectEventsFromTile ==
    /\ last.op = "none"
    /\ \E subject \in Subjects, tile \in TileInputs :
          /\ maze' = remove_subject_events_from_tile(maze, subject, tile)
          /\ last' = Call("remove_subject_events_from_tile",
                          <<subject, tile>>, "None")
    /\ UNCHANGED scratch

AddEventFromTile ==
    /\ last.op = "none"
    /\ TotalEvents(maze) < MaxEvents
    /\ \E event \in StoreEvents, tile \in AddTileInputs :
          LET r == add_event_from_tile(maze, event, tile)
          IN /\ maze' = r.maze
             /\ last' = Call("add_event_from_tile", <<event, tile>>,
                             IF r.raised THEN "IndexError" ELSE "None")
    /\ UNCHANGED scratch

ExpandMaze ==
    /\ last.op = "none"
    /\ \E new_width \in 1 .. MaxDim, new_height \in 1 .. MaxDim :
          /\ maze' = expand_maze(maze, new_width, new_height)
          /\ last' = Call("expand_maze", <<new_width, new_height>>, "None")
    /\ UNCHANGED scratch

RemoveEventFromTile ==
    /\ last.op = "none"
    /\ \E event \in RemovePatterns, tile \in TileInputs :
          /\ maze' = remove_event_from_tile(maze, event, tile)
          /\ last' = Call("remove_event_from_tile", <<event, tile>>, "None")
    /\ UNCHANGED scratch

\* A caller adds an event to a tile and removes it at once, by either of the
\* two removals.
AddThenRemove ==
    /\ last.op = "none"
    /\ \E tile \in TileInputs, event \in StoreEvents :
          \/ /\ maze' = remove_event(add_event(maze, tile, event), tile, event)
             /\ last' = Call("add_then_remove", <<tile, event>>, "None")
          \/ /\ maze' = remove_event_from_tile(add_event(maze, tile, event),
                                               event, tile)
             /\ last' = Call("add_then_remove", <<tile, event>>, "None")
    /\ UNCHANGED scratch

Next ==
    \/ AddEvent
    \/ RemoveEvent
    \/ RemoveSubjectEventsFromTile
    \/ AddEventFromTile
    \/ ExpandMaze
    \/ RemoveEventFromTile
    \/ AddThenRemove
    \/ Return

Spec == Init /\ [][Next]_vars

\* C7: remove_event_from_tile(event, tile) on an in-bounds tile removes exactly
\* `event` when the tile holds it; otherwise, when `event` is a partial tuple,
\* it removes every stored event that agrees with it on the first
\* min(len(event), len(stored)) components, several at once if need be, and
\* keeps every other event; on an out-of-bounds tile it changes nothing.
C7_RemoveEventFromTile ==
    last.op = "remove_event_from_tile" =>
        LET event == last.args[1]
            tile == last.args[2]
        IN IF ~InBounds(last.pre, tile[1], tile[2]) THEN maze = last.pre
           ELSE LET before == EventsOn(last.pre, tile)
                    after == EventsOn(maze, tile)
                IN IF event \in before THEN after = before \ {event}
                   ELSE Len(event) < 4 =>
                          after = {ex \in before :
                                      \E i \in 1 .. Min(Len(event), Len(ex)) :
                                         event[i] # ex[i]}

\* The pattern ("Bob",) has removed both events of Bob and kept Alice's.
C7_Witness ==
    /\ last.op = "remove_event_from_tile"
    /\ last.args[1] = EvBobOnly
    /\ InBounds(last.pre, last.args[2][1], last.args[2][2])
    /\ EventsOn(last.pre, last.args[2]) =
          {EvBobEating, EvBobWalking, EvAliceEating}
    /\ EventsOn(maze, last.args[2]) = {EvAliceEating}

\* C8 as claimed: adding a full event tuple to an in-bounds tile and removing
\* it at once leaves the tile's event set as it was before the add, whatever
\* that set was.
C8_RoundTrip ==
    (last.op = "add_then_remove"
     /\ InBounds(last.pre, last.args[1][1], last.args[1][2])) =>
        EventsOn(maze, last.args[1]) = EventsOn(last.pre, last.args[1])

\* C8, amended: adding a full event tuple e to an in-bounds tile and removing
\* it at once leaves the tile's event set as it was before the add when the
\* set did not hold e; when it did, the set is left without e.
C8_RoundTripAmended ==
    (last.op = "add_then_remove"
     /\ InBounds(last.pre, last.args[1][1], last.args[1][2])) =>
        LET before == EventsOn(last.pre, last.args[1])
            after == EventsOn(maze, last.args[1])
            e == last.args[2]
        IN /\ e \notin before => after = before
           /\ e \in before => after = before \ {e}

\* An event was added to a tile that held others, and removed again.
C8_Witness ==
    /\ last.op = "add_then_remove"
    /\ InBounds(last.pre, last.args[1][1], last.args[1][2])
    /\ EventsOn(last.pre, last.args[1]) # {}
    /\ last.args[2] \notin EventsOn(last.pre, last.args[1])
    /\ EventsOn(maze, last.args[1]) = EventsOn(last.pre, last.args[1])

\* What C9 asserts of a call of _expand_maze made on `old` that gave `new`.
Preserved(old, new) ==
    /\ \A t \in GridTiles(old.width, old.height) :
          /\ InBounds(new, t[1], t[2])
          /\ new.tiles[t[2] + 1][t[1] + 1] = old.tiles[t[2] + 1][t[1] + 1]
    /\ \A t \in GridTiles(new.width, new.height) \
                   GridTiles(old.width, old.height) :
          /\ is_traversable(new, t)
          /\ EventsOn(new, t) = {}
          /\ new.tiles[t[2] + 1][t[1] + 1].objects = {}

\* C9: when _expand_maze expands the grid (a width or a height beyond the
\* current one), every tile valid before keeps its kind, events, objects and
\* description at its coordinate, and every new tile is traversable with empty
\* event and object sets.
C9_ExpansionPreserves ==
    (last.op = "expand_maze"
     /\ (last.args[1] > last.pre.width \/ last.args[2] > last.pre.height)) =>
        Preserved(last.pre, maze)

\* The same of the calls that shrink neither dimension: these do preserve.
ExpansionInBothPreserves ==
    (last.op = "expand_maze"
     /\ last.args[1] >= last.pre.width /\ last.args[2] >= last.pre.height) =>
        Preserved(last.pre, maze)

\* C10: the grid never shrinks: _expand_maze with both arguments at most the
\* current dimensions changes nothing, and no call leaves the width or the
\* height smaller than it was.
C10_NeverShrinks ==
    last.op # "none" =>
        /\ maze.width >= last.pre.width
        /\ maze.height >= last.pre.height
        /\ (last.op = "expand_maze"
            /\ last.args[1] <= last.pre.width
            /\ last.args[2] <= last.pre.height) => maze = last.pre

\* The events of a tile of `new` before the call made on `old`: a tile the
\* call created held none.
EventsBefore(old, t) ==
    IF InBounds(old, t[1], t[2]) THEN EventsOn(old, t) ELSE {}

\* C11: add_event_from_tile(event, (x, y)) with (x, y) outside the grid, a
\* negative coordinate included, expands the grid so that (x, y) is in bounds
\* and then stores the event on the tile at exactly (x, y): it does not raise
\* and no other tile's event set changes.
C11_ExpandThenInsert ==
    (last.op = "add_event_from_tile"
     /\ ~InBounds(last.pre, last.args[2][1], last.args[2][2])) =>
        LET event == last.args[1]
            tile == last.args[2]
        IN /\ last.ret = "None"
           /\ InBounds(maze, tile[1], tile[2])
           /\ event \in EventsOn(maze, tile)
           /\ \A t \in GridTiles(maze.width, maze.height) \ {tile} :
                 EventsOn(maze, t) = EventsBefore(last.pre, t)

\* The same of the coordinates that are not negative: for these the call does
\* expand and store the event on the addressed tile.
AddEventFromTileBeyondEdge ==
    (last.op = "add_event_from_tile"
     /\ ~InBounds(last.pre, last.args[2][1], last.args[2][2])
     /\ last.args[2][1] >= 0 /\ last.args[2][2] >= 0) =>
        LET event == last.args[1]
            tile == last.args[2]
        IN /\ last.ret = "None"
           /\ InBounds(maze, tile[1], tile[2])
           /\ event \in EventsOn(maze, tile)
           /\ \A t \in GridTiles(maze.width, maze.height) \ {tile} :
                 EventsOn(maze, t) = EventsBefore(last.pre, t)

\* The operations that change the events of a tile.
EventOperations ==
    {"add_event", "add_event_from_tile", "remove_event",
     "remove_event_from_tile", "remove_subject_events_from_tile"}

\* The tile a call of one of these was made with.
TileOf(call) ==
    IF call.op \in {"add_event", "remove_event"} THEN call.args[1]
    ELSE call.args[2]

\* C12: add_event, add_event_from_tile, remove_event, remove_event_from_tile
\* and remove_subject_events_from_tile, called with tile (x, y) in or out of
\* bounds, leave the event set of every tile other than (x, y) as it was.
C12_Frame ==
    last.op \in EventOperations =>
        \A t \in GridTiles(maze.width, maze.height) \ {TileOf(last)} :
           EventsOn(maze, t) = EventsBefore(last.pre, t)

\* The same of the four operations that return on an out-of-bounds tile:
\* these change no other tile, and none at all when the tile is out of bounds.
FrameOfGuardedOperations ==
    last.op \in EventOperations \ {"add_event_from_tile"} =>
        /\ \A t \in GridTiles(maze.width, maze.height) \ {TileOf(last)} :
              EventsOn(maze, t) = EventsBefore(last.pre, t)
        /\ ~InBounds(last.pre, TileOf(last)[1], TileOf(last)[2]) =>
              maze = last.pre

\* ------------------------------------------------ specification: construction
\* Whether _generate_tiles finds layout[y][x] for every y of range(height) and
\* x of range(width); it raises IndexError when it does not.
LayoutCovers(width, height, layout) ==
    \A y \in 1 .. height :
       \A x \in 1 .. width : y <= Len(layout) /\ x <= Len(layout[y])

\* Maze.__init__ without a maze name: the maze built, or that _generate_tiles
\* raised.  A width or height of 0 is falsy, as an omitted one is, and an
\* empty layout is falsy, as an omitted one is.
create(width, height, layout) ==
    LET sized == width # 0 /\ height # 0
        w == IF sized THEN width ELSE 10
        h == IF sized THEN height ELSE 10
        lay == IF sized /\ layout # None THEN layout
               ELSE generate_default_layout(w, h)
    IN IF LayoutCovers(w, h, lay)
       THEN [maze |-> MazeOfSize(width, height, layout), raised |-> FALSE]
       ELSE [maze |-> None, raised |-> TRUE]

\* dict.get(key, default)
Get(maze_data, key, default) ==
    IF key \in DOMAIN maze_data THEN maze_data[key] ELSE default

\* Maze._load_maze: width, height and layout after it.  An unreadable or
\* unparseable file raises inside the try and gives the defaults.
load_maze(readable, maze_data) ==
    IF ~readable
    THEN [width |-> 10, height |-> 10,
          layout |-> generate_default_layout(10, 10)]
    ELSE LET width == Get(maze_data, "width", 10)
             height == Get(maze_data, "height", 10)
         IN [width |-> width, height |-> height,
             layout |-> Get(maze_data, "layout",
                            generate_default_layout(width, height))]

\* Maze.__init__ with a maze name: _load_maze, then _generate_tiles outside
\* the try.
create_named(readable, maze_data) ==
    LET l == load_maze(readable, maze_data)
    IN IF LayoutCovers(l.width, l.height, l.layout)
       THEN [maze |-> [width |-> l.width, height |-> l.height,
                       layout |-> l.layout,
                       tiles |-> generate_tiles(l.width, l.height, l.layout)],
             raised |-> FALSE]
       ELSE [maze |-> None, raised |-> TRUE]

\* The widths and heights a grid is constructed with, and the layouts: none,
\* and square ones with and without a wall.
CreateDims == -1 .. MaxDim

CreateLayouts ==
    {None} \cup {LayoutOf(n, n, w) : n \in 2 .. MaxDim, w \in {{}, {<<1, 1>>}}}

\* The contents of a maze file: each of width, height and layout present or
\* missing.
LoadFields == {"width", "height", "layout"}

LoadData ==
    {[k \in present |->
         CASE k = "width" -> width
           [] k = "height" -> height
           [] k = "layout" -> layout] :
        present \in SUBSET LoadFields, width \in 2 .. MaxDim,
        height \in 2 .. MaxDim, layout \in CreateLayouts \ {None}}

\* Maze(): the 10 x 10 grid of the constructor without arguments.
CreateInit ==
    /\ maze = create(0, 0, None).maze
    /\ scratch = ScratchDefaults
    /\ last = Idle

\* Maze(width=..., height=..., layout=...): the caller holds the new maze, or
\* the one it held when the constructor raised.
Create ==
    /\ last.op = "none"
    /\ \E width \in CreateDims, height \in CreateDims,
          layout \in CreateLayouts :
          \E r \in {create(width, height, layout)} :
             /\ maze' = IF r.raised THEN maze ELSE r.maze
             /\ last' = Call("create", <<width, height, layout>>,
                             IF r.raised THEN "IndexError" ELSE "None")
    /\ UNCHANGED scratch

\* Maze(maze_name)
CreateNamed ==
    /\ last.op = "none"
    /\ \E readable \in BOOLEAN, maze_data \in LoadData :
          \E r \in {create_named(readable, maze_data)} :
             /\ maze' = IF r.raised THEN maze ELSE r.maze
             /\ last' = Call("create_named", <<readable, maze_data>>,
                             IF r.raised THEN "IndexError" ELSE "None")
    /\ UNCHANGED scratch

CreateNext == Create \/ CreateNamed \/ ExpandMaze \/ Return

SpecCreate == CreateInit /\ [][CreateNext]_vars

\* The layout and the tile array of m have m.height rows of m.width entries.
Rectangular(m) ==
    /\ Len(m.layout) = m.height
    /\ Len(m.tiles) = m.height
    /\ \A y \in 1 .. m.height :
          Len(m.layout[y]) = m.width /\ Len(m.tiles[y]) = m.width

\* Every tile of m is traversable.
AllTraversable(m) ==
    \A t \in GridTiles(m.width, m.height) : is_traversable(m, t)

\* The grid the fallbacks build: 10 x 10, every tile traversable.
IsDefaultGrid(m) ==
    /\ m.width = 10 /\ m.height = 10
    /\ Rectangular(m)
    /\ AllTraversable(m)

\* C13: construction with a width or height <= 0 fails with InvalidDimension
\* and yields no grid; construction with a positive width and height and no
\* layout yields a grid of exactly that size, every tile traversable.
C13_InvalidDimension ==
    last.op = "create" =>
        LET width == last.args[1]
            height == last.args[2]
            layout == last.args[3]
        IN /\ (width <= 0 \/ height <= 0) =>
                 last.ret = "InvalidDimension" /\ maze = last.pre
           /\ (width > 0 /\ height > 0 /\ layout = None) =>
                 /\ last.ret = "None"
                 /\ maze.width = width /\ maze.height = height
                 /\ Rectangular(maze)
                 /\ AllTraversable(maze)

\* The second half of C13 alone, which the constructor does satisfy.
CreateOfPositiveSize ==
    (last.op = "create" /\ last.args[1] > 0 /\ last.args[2] > 0
     /\ last.args[3] = None) =>
        /\ last.ret = "None"
        /\ maze.width = last.args[1] /\ maze.height = last.args[2]
        /\ Rectangular(maze)
        /\ AllTraversable(maze)

\* What a width or height <= 0 gives: never an error; the 10 x 10 grid when
\* one of them is 0, and otherwise a grid of the negative dimension without a
\* tile.
CreateOfNonPositiveSize ==
    (last.op = "create" /\ (last.args[1] <= 0 \/ last.args[2] <= 0)) =>
        /\ last.ret = "None"
        /\ (last.args[1] = 0 \/ last.args[2] = 0) => IsDefaultGrid(maze)
        /\ (last.args[1] # 0 /\ last.args[2] # 0) =>
              /\ maze.width = last.args[1] /\ maze.height = last.args[2]
              /\ GridTiles(maze.width, maze.height) = {}

\* A loaded structure is malformed: unreadable, a field missing, or a layout
\* whose dimensions are not width and height.
Malformed(readable, maze_data) ==
    \/ ~readable
    \/ DOMAIN maze_data # LoadFields
    \/ Len(maze_data.layout) # maze_data.height
    \/ \E y \in 1 .. Len(maze_data.layout) :
          Len(maze_data.layout[y]) # maze_data.width

\* C14: construction from a loaded structure never raises, and gives the
\* default 10 x 10 all-traversable grid whenever the loaded input is missing
\* or malformed.
C14_LoadFallsBack ==
    last.op = "create_named" =>
        /\ last.ret = "None"
        /\ Malformed(last.args[1], last.args[2]) => IsDefaultGrid(maze)

\* The part of C14 the code does satisfy: an unreadable file gives the
\* default grid and nothing is raised.
UnreadableLoadFallsBack ==
    (last.op = "create_named" /\ ~last.args[1]) =>
        last.ret = "None" /\ IsDefaultGrid(maze)

\* The part of C14 that says nothing is raised.
LoadNeverRaises == last.op = "create_named" => last.ret = "None"

\* C16: in every state reached by construction followed by event operations
\* and expansions, the layout and the tile array both have exactly height
\* rows of exactly width entries each.
C16_Rectangular == Rectangular(maze)

\* Out-of-bounds coordinates is_traversable is asked about: one step beyond
\* each edge of the grid, and beyond two corners.
OutOfBoundsProbes(m) ==
    {<<-1, 0>>, <<0, -1>>, <<m.width, 0>>, <<0, m.height>>,
     <<-1, -1>>, <<m.width, m.height>>}

\* is_traversable is true of an in-bounds tile exactly when the layout holds
\* 0 there, and false of an out-of-bounds coordinate.
KindReflectsLayout ==
    /\ \A y \in Range(maze.height), x \in Range(maze.width) :
          is_traversable(maze, <<x, y>>) <=> maze.layout[y + 1][x + 1] = 0
    /\ \A t \in OutOfBoundsProbes(maze) : is_traversable(maze, t) = FALSE

\* C15: in every reachable state is_traversable((x, y)) is true of an
\* in-bounds (x, y) exactly when layout[y][x] is 0 and false of an
\* out-of-bounds coordinate, and no event operation (add, remove, remove by
\* subject) changes the kind of a tile.
C15_TraversableIsLayout ==
    /\ KindReflectsLayout
    /\ last.op \in EventOperations \cup {"add_then_remove"} =>
          \A old \in {last.pre} :
             \A y \in Range(old.height), x \in Range(old.width) :
                /\ InBounds(maze, x, y)
                /\ maze.tiles[y + 1][x + 1].type = old.tiles[y + 1][x + 1].type

\* An event operation has changed the events of a grid that holds a wall and
\* that an expansion had grown; the wall is still one.
C15_Witness ==
    /\ last.op \in EventOperations
    /\ maze # last.pre
    /\ maze.width > InitW
    /\ \E t \in GridTiles(InitW, InitH) :
          ~is_traversable(last.pre, t) /\ ~is_traversable(maze, t)

\* What C17 says of a sequence of tiles `walk` and the tiles a and b.
UnitStepsFromTo(walk, a, b) ==
    /\ Len(walk) = 1 + Abs(a[1] - b[1]) + Abs(a[2] - b[2])
    /\ walk[1] = a
    /\ \A i \in 1 .. Len(walk) - 1 :
          Abs(walk[i + 1][1] - walk[i][1])
             + Abs(walk[i + 1][2] - walk[i][2]) = 1
    /\ \A i \in 1 .. Len(walk) :
          /\ Min(a[1], b[1]) <= walk[i][1] /\ walk[i][1] <= Max(a[1], b[1])
          /\ Min(a[2], b[2]) <= walk[i][2] /\ walk[i][2] <= Max(a[2], b[2])
    /\ walk[Len(walk)] = b

\* C17 as claimed: the walk performed by has_line_of_sight(a, b) visits
\* exactly 1 + |ax-bx| + |ay-by| tiles, the first a, each next one unit step
\* along exactly one axis from the previous, all inside the bounding rectangle
\* of a and b, the last b.
C17_Walk ==
    last.op = "has_line_of_sight" =>
        UnitStepsFromTo(last.obs, last.args[1], last.args[2])

\* C17, amended: the path has_line_of_sight(a, b) walks has exactly
\* 1 + |ax-bx| + |ay-by| tiles, the first a, each next one unit step along
\* exactly one axis from the previous, all inside the bounding rectangle of a
\* and b, the last b; the call visits the whole path when it returns true, and
\* when it returns false it has visited the path up to and including the first
\* non-traversable tile other than b, and no further.
C17_WalkAmended ==
    last.op = "has_line_of_sight" =>
        LET a == last.args[1]
            b == last.args[2]
            visited == last.obs
            path == LosWalk(a, b)
        IN /\ UnitStepsFromTo(path, a, b)
           /\ Len(visited) >= 1 /\ Len(visited) <= Len(path)
           /\ visited = SubSeq(path, 1, Len(visited))
           /\ \A i \in 1 .. Len(visited) - 1 :
                 is_traversable(maze, visited[i]) \/ visited[i] = b
           /\ last.ret = TRUE =>
                 /\ visited = path
                 /\ is_traversable(maze, b) \/ visited[Len(visited)] = b
           /\ last.ret = FALSE =>
                 /\ ~is_traversable(maze, visited[Len(visited)])
                 /\ visited[Len(visited)] # b

\* A walk with steps along both axes was cut short by a wall after its first
\* tile.
C17_Witness ==
    /\ last.op = "has_line_of_sight"
    /\ last.ret = FALSE
    /\ Abs(last.args[1][1] - last.args[2][1]) >= 2
    /\ Abs(last.args[1][2] - last.args[2][2]) >= 1
    /\ InBounds(maze, last.args[1][1], last.args[1][2])
    /\ InBounds(maze, last.args[2][1], last.args[2][2])
    /\ Len(last.obs) >= 3
    /\ Len(last.obs) < Len(LosWalk(last.args[1], last.args[2]))

\* A walk with steps along both axes was completed.
C17_WitnessComplete ==
    /\ last.op = "has_line_of_sight"
    /\ last.ret = TRUE
    /\ Abs(last.args[1][1] - last.args[2][1]) >= 2
    /\ Abs(last.args[1][2] - last.args[2][2]) >= 2
    /\ Len(last.obs) = Len(LosWalk(last.args[1], last.args[2]))

====
